---- MODULE Spec2Model ----
(***************************************************************************)
(* Loan payback prediction API (backend/app.py, backend/database.py).      *)
(*                                                                         *)
(* The service is modelled as a set of request workers over one MySQL      *)
(* database.  Every `with get_db()` block of database.py is one            *)
(* transaction and is one atomic step here; the steps of one request run   *)
(* in program order and interleave freely with the steps of the others.    *)
(* Time is counted in ticks of 1/TicksPerSecond s so that the truncation   *)
(* of timestamps to whole seconds (JWT exp, TIMESTAMP columns) is visible. *)
(* Probabilities are fixed-point numbers in units of 10^-ProbDigits.       *)
(* get_db itself, with the global connection pool, is modelled statement   *)
(* by statement for the threads that call it concurrently.                 *)
(***************************************************************************)
EXTENDS Integers, Sequences, FiniteSets, Bags, TLC

VARIABLES
    users,              \* rows of table users
    nextUserId,         \* AUTO_INCREMENT counter of users.id
    predictions,        \* rows of table predictions
    nextPredictionId,   \* AUTO_INCREMENT counter of predictions.id
    clock,              \* wall clock, in ticks
    req,                \* per worker: the request it is executing
    last,               \* the request that completed in the latest step, with its response
    issued,             \* tokens handed out in responses (what clients can present),
                        \* each with the instant and the endpoint that issued it
    uuids,              \* number of uuid.uuid4() values drawn so far
    serial,             \* number of prediction requests admitted so far
    createdBy,          \* history: prediction id -> request that inserted it
    faults,             \* storage errors raised inside create_prediction so far
    deletes,            \* the rows of users the administrator has deleted
    connection_pool,    \* database.connection_pool: 0 for None, else the pool object
    pools,              \* number of MySQLConnectionPool objects constructed so far
    reachable,          \* whether the MySQL server accepts connections
    checkedOut,         \* per pool object: connections taken from its queue
    threads,            \* per position inside get_db: the threads that are there
    scope,              \* the get_db call that ended in the latest step
    running             \* the requests in progress: for each, its handler, the
                        \* calls it has made and the connections it holds

\* The state of the connection pool manager, and the rest.
Pool == <<connection_pool, pools, reachable, checkedOut, threads, scope>>

vars == <<users, nextUserId, predictions, nextPredictionId, clock, req, last,
          issued, uuids, serial, createdBy, faults, deletes, Pool, running>>

-----------------------------------------------------------------------------
(* Bounds of the model *)

MaxSubmissions == 2     \* prediction requests admitted in one behaviour
MaxTokens == 2          \* tokens issued in one behaviour
MaxBatchRows == 2       \* rows of one uploaded CSV
MaxSkew == 1            \* ticks the clock moves around an instant of interest
TicksPerSecond == 2     \* clock resolution: ticks in one second
ProbDigits == 5         \* decimal digits of a probability the scorer returns
MaxFaults == 1          \* storage errors raised inside create_prediction
MaxDeletes == 1         \* users deleted by the administrator
MaxPools == 2           \* pool objects constructed in one behaviour
MaxLeaks == 1           \* connections of one pool that are never given back

WorkerOrder == <<"w1", "w2">>
Workers == {WorkerOrder[i] : i \in 1..Len(WorkerOrder)}
Usernames == {"alice", "bob"}
Emails == {"a@x.com", "b@x.com"}
Passwords == {"pw123"}
LoginPasswords == Passwords \cup {"guess"}

(* Program constants *)

ACCESS_TOKEN_EXPIRE_MINUTES == 1440
ProbabilityScale == 4   \* probability DECIMAL(5, 4)
pool_size == 5          \* pooling.MySQLConnectionPool(pool_size=5)

RECURSIVE Pow10(_)
Pow10(k) == IF k = 0 THEN 1 ELSE 10 * Pow10(k - 1)

ExpireTicks == ACCESS_TOKEN_EXPIRE_MINUTES * 60 * TicksPerSecond

\* The instants the clock is observed at: the first seconds, and around the
\* expiry of the tokens issued in the first second.
EarlyInstants == {0, TicksPerSecond}
Instants ==
    (0 .. MaxSkew) \cup (ExpireTicks - 1 .. ExpireTicks + MaxSkew - 1)

NULL == <<>>
None == [none |-> TRUE]
NoCredentials == [scheme |-> "none"]

-----------------------------------------------------------------------------
(* Connection pool manager: database.get_db, statement by statement.  The   *)
(* threads are the server's thread pool workers; what a thread does with   *)
(* the cursor is abstracted to whether the body of the with block raises.  *)
(* The threads run the same code, so the state keeps, for every position   *)
(* in get_db, the number of threads that are there.                        *)

\* One more thread than the pool has connections.
NumThreads == pool_size + 1

Application == <<users, nextUserId, predictions, nextPredictionId, clock, req,
                 last, issued, uuids, serial, createdBy, faults, deletes>>

Service == <<Application, running>>

\* Positions of a thread: outside get_db, before init_connection_pool (the
\* global was None), before get_connection, and, holding a connection of
\* pool object conn, before conn.cursor() or inside the with block.
At(pc, conn) == [pc |-> pc, conn |-> conn]

Positions ==
    {At("idle", 0), At("init", 0), At("get", 0)}
        \cup {At(pc, p) : pc \in {"cursor", "body"}, p \in 1..MaxPools}

\* A thread moves from one position to another.
Move(from, to) ==
    /\ threads[from] > 0
    /\ threads' = [threads EXCEPT ![from] = @ - 1, ![to] = @ + 1]

\* No get_db call ended in the latest step.
NoScope == [result |-> "none", conn |-> 0, pool |-> 0,
            committed |-> FALSE, rolledBack |-> FALSE, released |-> FALSE]

\* The threads inside a get_db call that hold a connection of pool p.
Holders(p) == threads[At("cursor", p)] + threads[At("body", p)]

\* Connections of pool object p that are out of its queue, and those of
\* them that no thread holds any more.
InUse(p) == checkedOut[p]
Leaked(p) == checkedOut[p] - Holders(p)

\* A get_db call ends: it returns or raises, and what it did is recorded.
\* conn is the pool whose connection the thread had obtained (0: none).
EndScope(from, result, committed, rolledBack, released) ==
    /\ Move(from, At("idle", 0))
    /\ scope' = [result |-> result, conn |-> from.conn, pool |-> connection_pool,
                 committed |-> committed, rolledBack |-> rolledBack,
                 released |-> released]

\* Line 37: a thread enters get_db and tests `connection_pool is None`.
EnterGetDb ==
    /\ Move(At("idle", 0), At(IF connection_pool = 0 THEN "init" ELSE "get", 0))
    /\ scope' = NoScope
    /\ UNCHANGED <<connection_pool, pools, reachable, checkedOut, Service>>

\* Lines 20-32: the pool is constructed and assigned to the global; when
\* the server is unreachable the Error is printed and the global keeps its
\* value.
init_connection_pool ==
    /\ Move(At("init", 0), At("get", 0))
    /\ IF reachable
       THEN /\ pools < MaxPools
            /\ pools' = pools + 1
            /\ connection_pool' = pools + 1
       ELSE UNCHANGED <<pools, connection_pool>>
    /\ scope' = NoScope
    /\ UNCHANGED <<reachable, checkedOut, Service>>

\* Line 40: connection_pool.get_connection().  On None the attribute lookup
\* raises AttributeError; an empty queue raises PoolError at once (the
\* queue is read with block=False); a connection that cannot be
\* re-established is put back and the error raised.
get_connection ==
    /\ IF connection_pool = 0
       THEN /\ EndScope(At("get", 0), "AttributeError", FALSE, FALSE, FALSE)
            /\ UNCHANGED checkedOut
       ELSE IF InUse(connection_pool) = pool_size
       THEN /\ EndScope(At("get", 0), "PoolError", FALSE, FALSE, FALSE)
            /\ UNCHANGED checkedOut
       ELSE IF ~reachable
       THEN /\ EndScope(At("get", 0), "InterfaceError", FALSE, FALSE, FALSE)
            /\ UNCHANGED checkedOut
       ELSE /\ Move(At("get", 0), At("cursor", connection_pool))
            /\ checkedOut' = [checkedOut EXCEPT ![connection_pool] = @ + 1]
            /\ scope' = NoScope
    /\ UNCHANGED <<connection_pool, pools, reachable, Service>>

\* Line 41: conn.cursor(dictionary=True), before the try statement.  On a
\* connection that was lost it raises OperationalError, and nothing closes
\* the connection.
cursor(p) ==
    /\ IF reachable
       THEN /\ Move(At("cursor", p), At("body", p))
            /\ scope' = NoScope
       ELSE /\ Leaked(p) < MaxLeaks
            /\ EndScope(At("cursor", p), "OperationalError", FALSE, FALSE, FALSE)
    /\ UNCHANGED <<connection_pool, pools, reachable, checkedOut, Service>>

\* Lines 42-50: the body of the with block runs; then commit, or rollback
\* and re-raise; finally the cursor and the connection are closed, which
\* returns the connection to the queue of its pool.
ExitGetDb(p) ==
    /\ \E raised \in BOOLEAN :
         LET committed == ~raised /\ reachable
             result == IF raised THEN "BodyError"
                       ELSE IF reachable THEN "ok" ELSE "CommitError"
         IN EndScope(At("body", p), result, committed, ~committed, TRUE)
    /\ checkedOut' = [checkedOut EXCEPT ![p] = @ - 1]
    /\ UNCHANGED <<connection_pool, pools, reachable, Service>>

\* The module is imported: init_db runs one get_db call, which constructs
\* the pool when the server is up; when it is not, the exception is printed
\* and the global stays None.
Imported(up) ==
    /\ reachable = up
    /\ connection_pool = (IF up THEN 1 ELSE 0)
    /\ pools = (IF up THEN 1 ELSE 0)
    /\ checkedOut = [p \in 1..MaxPools |-> 0]
    /\ threads = [s \in Positions |-> IF s = At("idle", 0) THEN NumThreads ELSE 0]
    /\ scope = NoScope

\* The MySQL server stops or starts accepting connections.
ServerStops ==
    /\ reachable
    /\ reachable' = FALSE
    /\ scope' = NoScope
    /\ UNCHANGED <<connection_pool, pools, checkedOut, threads, Service>>

ServerStarts ==
    /\ ~reachable
    /\ reachable' = TRUE
    /\ scope' = NoScope
    /\ UNCHANGED <<connection_pool, pools, checkedOut, threads, Service>>

-----------------------------------------------------------------------------
(* The external scorer: pipeline.predict / pipeline.predict_proba.  A fixed  *)
(* deterministic table over the bounded feature vectors; prob counts units  *)
(* of 10^-ProbDigits.                                                       *)

Score(x) ==
    IF x = "v1" THEN [label |-> 1, prob |-> 87654]
                ELSE [label |-> 0, prob |-> 12000]

(* Rows a client can submit: a name plus the feature vector. *)
RowOrder == << [name |-> "Alice", x |-> "v1"], [name |-> "Bob", x |-> "v2"] >>
Rows == {RowOrder[i] : i \in 1..Len(RowOrder)}

(* The uploaded files: for each length, the file whose rows alternate. *)
BatchFiles ==
    { [i \in 1..n |-> RowOrder[((i - 1) % Len(RowOrder)) + 1]] : n \in 1..MaxBatchRows }

-----------------------------------------------------------------------------
(* Credential store *)

hash_password(password) == [bcrypt |-> password]

verify_password(plain_password, hashed_password) ==
    hashed_password.bcrypt = plain_password

-----------------------------------------------------------------------------
(* JWT functions *)

\* jwt.encode writes exp as whole seconds (timegm of the datetime's time tuple).
create_access_token(sub, now) ==
    [sub |-> sub, exp |-> (now \div TicksPerSecond) + ACCESS_TOKEN_EXPIRE_MINUTES * 60]

\* A token as a client holds it; at, via and uid (the instant and the
\* endpoint of issue, the id of the user it was issued to) are history,
\* not payload.
Issue(token, via, user) ==
    [sub |-> token.sub, exp |-> token.exp, at |-> clock, via |-> via,
     uid |-> user.id]

Bearer(t, sig) ==
    [scheme |-> "Bearer", sub |-> t.sub, exp |-> t.exp, sig |-> sig,
     at |-> t.at, via |-> t.via, uid |-> t.uid]

\* Variant: a token is still accepted at the instant of its expiry.
decode_token_late(credentials, now) ==
    IF credentials.sig # "valid"
    THEN [ok |-> FALSE, status |-> 401, detail |-> "Invalid token"]
    ELSE IF credentials.exp * TicksPerSecond < now
    THEN [ok |-> FALSE, status |-> 401, detail |-> "Token expired"]
    ELSE [ok |-> TRUE, sub |-> credentials.sub]

\* jwt.decode verifies the signature first, then exp <= now.
decode_token(credentials, now) ==
    IF credentials.sig # "valid"
    THEN [ok |-> FALSE, status |-> 401, detail |-> "Invalid token"]
    ELSE IF credentials.exp * TicksPerSecond <= now
    THEN [ok |-> FALSE, status |-> 401, detail |-> "Token expired"]
    ELSE [ok |-> TRUE, sub |-> credentials.sub]

-----------------------------------------------------------------------------
(* User registry *)

\* Variant: the row is looked up in the wrong column.
get_user_by_username_email_column(username) ==
    IF \E u \in users : u.email = username
    THEN CHOOSE u \in users : u.email = username
    ELSE None

get_user_by_username(username) ==
    IF \E u \in users : u.username = username
    THEN CHOOSE u \in users : u.username = username
    ELSE None

\* Variant: the row is looked up in the wrong column.
get_user_by_email_username_column(email) ==
    IF \E u \in users : u.username = email
    THEN CHOOSE u \in users : u.username = email
    ELSE None

get_user_by_email(email) ==
    IF \E u \in users : u.email = email
    THEN CHOOSE u \in users : u.email = email
    ELSE None

\* Variant: the table declares username UNIQUE, and email not.
UniqueViolationUsernameOnly(username, email) ==
    \E u \in users : u.username = username

\* UNIQUE(username), UNIQUE(email) of table users.
UniqueViolation(username, email) ==
    \E u \in users : u.username = username \/ u.email = email

NewUser(username, email, password) ==
    [id |-> nextUserId, username |-> username, email |-> email,
     hashed_password |-> hash_password(password)]

-----------------------------------------------------------------------------
(* Prediction record store *)

\* A value written to a DECIMAL(5, ProbabilityScale) column is rounded to
\* ProbabilityScale decimal digits (half away from zero).
DecimalColumn(p) ==
    LET q == Pow10(ProbDigits - ProbabilityScale)
    IN ((p + q \div 2) \div q) * q

\* The row the INSERT of create_prediction adds; created_at is
\* CURRENT_TIMESTAMP, a TIMESTAMP column holding whole seconds.
NewPrediction(user_id, loan_data, prediction, probability, prediction_type, batch_id) ==
    [id |-> nextPredictionId, user_id |-> user_id, name |-> loan_data.name,
     x |-> loan_data.x, prediction |-> prediction,
     probability |-> DecimalColumn(probability),
     prediction_type |-> prediction_type, batch_id |-> batch_id,
     created_at |-> clock \div TicksPerSecond]

\* Variant: the SELECT has no WHERE clause.
PredictionsOfAnyUser(user_id) == predictions

\* SELECT * FROM predictions WHERE user_id = %s
PredictionsOf(user_id) == {p \in predictions : p.user_id = user_id}

\* ... ORDER BY created_at DESC: every listing of the rows in which created_at
\* never increases; SQL leaves the order of rows with equal keys open.
RECURSIVE OrderByCreatedAtDesc(_)
OrderByCreatedAtDesc(rows) ==
    IF rows = {} THEN {<<>>}
    ELSE LET latest == {p \in rows : \A q \in rows : p.created_at >= q.created_at}
         IN UNION { {<<p>> \o s : s \in OrderByCreatedAtDesc(rows \ {p})} : p \in latest }

get_user_predictions(user_id) == OrderByCreatedAtDesc(PredictionsOf(user_id))

-----------------------------------------------------------------------------
(* Requests *)

Idle == [kind |-> "none", pc |-> "idle", sn |-> 0, cred |-> NoCredentials,
         body |-> None, cur |-> None, dup |-> FALSE, rejected |-> FALSE,
         scored |-> 0, out |-> <<>>, fault |-> "none",
         idx |-> 0, batch_id |-> NULL, acc |-> <<>>, resp |-> None]

\* A new request is taken by the first worker that is not busy.
Busy(r) == req[r].pc # "idle"

Free(r) ==
    /\ ~Busy(r)
    /\ \A i \in 1..Len(WorkerOrder) :
         WorkerOrder[i] = r => \A j \in 1..(i - 1) : Busy(WorkerOrder[j])

NewRequest(kind, pc, cred, body) ==
    [Idle EXCEPT !.kind = kind, !.pc = pc, !.cred = cred, !.body = body]

\* Bound of the model: the tokens handed out to the users that exist.
MayIssue(t) ==
    Cardinality({s \in issued \cup {t} : \A d \in deletes : s.uid # d.id}) <= MaxTokens

\* The request ends: the response goes out and the worker is free again.
Finish(r, request, resp) ==
    /\ last' = [request EXCEPT !.pc = "done", !.resp = resp]
    /\ req' = [req EXCEPT ![r] = Idle]

Continue(r, request) ==
    /\ req' = [req EXCEPT ![r] = request]
    /\ last' = Idle

HTTPException(status, detail) == [status |-> status, detail |-> detail, body |-> None]

\* The answer to a request whose handler let an exception escape.
InternalServerError == HTTPException(500, "Internal Server Error")

Ok(body) == [status |-> 200, detail |-> "OK", body |-> body]

Database == <<users, nextUserId, predictions, nextPredictionId, createdBy>>

\* The tables are empty and no request is running.
Started ==
    /\ users = {}
    /\ nextUserId = 1
    /\ predictions = {}
    /\ nextPredictionId = 1
    /\ clock = 0
    /\ req = [r \in Workers |-> Idle]
    /\ last = Idle
    /\ issued = {}
    /\ uuids = 0
    /\ serial = 0
    /\ createdBy = <<>>
    /\ faults = 0
    /\ deletes = {}
    /\ running = EmptyBag

Init == Started /\ Imported(TRUE)

-----------------------------------------------------------------------------
(* POST /register *)

\* A request arrives at a free worker, which runs it up to the end of its
\* first transaction: get_user_by_username.
RegisterCheckUsername(r) ==
    /\ Free(r)
    /\ \E u \in Usernames, e \in Emails, p \in Passwords :
         LET request == [NewRequest("register", "reg_email", NoCredentials,
                                    [username |-> u, email |-> e, password |-> p])
                         EXCEPT !.dup = UniqueViolation(u, e)]
         IN IF get_user_by_username(u) # None
            THEN Finish(r, request, HTTPException(400, "Username already exists"))
            ELSE Continue(r, request)
    /\ UNCHANGED <<Database, clock, issued, uuids, serial, faults, deletes, Pool, running>>

RegisterCheckEmail(r) ==
    /\ req[r].pc = "reg_email"
    /\ IF get_user_by_email(req[r].body.email) # None
       THEN Finish(r, req[r], HTTPException(400, "Email already exists"))
       ELSE Continue(r, [req[r] EXCEPT !.pc = "reg_create"])
    /\ UNCHANGED <<Database, clock, issued, uuids, serial, faults, deletes, Pool, running>>

\* db.create_user, then create_access_token.  The INSERT either violates a
\* UNIQUE key (IntegrityError: get_db rolls back and re-raises, register does
\* not catch it, the server answers 500) or adds the row.
RegisterCreateUser(r) ==
    /\ req[r].pc = "reg_create"
    /\ LET b == req[r].body IN
       IF UniqueViolation(b.username, b.email)
       THEN /\ Finish(r, [req[r] EXCEPT !.rejected = TRUE],
                      InternalServerError)
            /\ UNCHANGED <<users, nextUserId, issued>>
       ELSE LET user == NewUser(b.username, b.email, b.password)
                token == create_access_token(user.username, clock)
            IN /\ MayIssue(Issue(token, "register", user))
               /\ users' = users \cup {user}
               /\ nextUserId' = nextUserId + 1
               /\ issued' = issued \cup {Issue(token, "register", user)}
               /\ Finish(r, [req[r] EXCEPT !.cur = user], Ok(token))
    /\ UNCHANGED <<predictions, nextPredictionId, createdBy, clock, uuids, serial, faults, deletes, Pool, running>>

-----------------------------------------------------------------------------
(* POST /login *)

Login(r) ==
    /\ Free(r)
    /\ \E u \in Usernames, p \in LoginPasswords :
         LET request == NewRequest("login", "login", NoCredentials,
                                   [username |-> u, password |-> p])
             user == get_user_by_username(u)
         IN IF user = None \/ ~verify_password(p, user.hashed_password)
            THEN /\ Finish(r, request, HTTPException(401, "Invalid credentials"))
                 /\ UNCHANGED issued
            ELSE LET token == create_access_token(user.username, clock) IN
                 /\ MayIssue(Issue(token, "login", user))
                 /\ issued' = issued \cup {Issue(token, "login", user)}
                 /\ Finish(r, [request EXCEPT !.cur = user], Ok(token))
    /\ UNCHANGED <<Database, clock, uuids, serial, faults, deletes, Pool, running>>

-----------------------------------------------------------------------------
(* Authentication of the guarded endpoints *)

\* What a client can put in the Authorization header: nothing, a token it
\* was given, or such a token altered (its signature no longer verifies).
Credentials ==
    {NoCredentials} \cup {Bearer(t, sig) : t \in issued, sig \in {"valid", "tampered"}}

\* security = HTTPBearer(): a request without credentials is answered by the
\* framework before get_current_user runs, with 403 "Not authenticated"
\* (401 in the FastAPI releases that changed this status).
NotAuthenticatedStatus == {403, 401}

\* Every token of this model carries a subject (create_access_token is the
\* only producer of signed tokens), so payload.get("sub") is never None.
get_current_user(credentials, now) ==
    LET payload == decode_token(credentials, now) IN
    IF ~payload.ok THEN payload
    ELSE LET user == get_user_by_username(payload.sub) IN
         IF user = None
         THEN [ok |-> FALSE, status |-> 401, detail |-> "User not found"]
         ELSE [ok |-> TRUE, user |-> user]

\* A request for a guarded endpoint arrives and its dependencies are solved.
\* An admitted prediction request gets the next serial number.
Authenticate(r, kind, pc) ==
    /\ Free(r)
    /\ \E cred \in Credentials :
         LET request == NewRequest(kind, pc, cred, None) IN
         IF cred = NoCredentials
         THEN /\ \E status \in NotAuthenticatedStatus :
                   Finish(r, request, HTTPException(status, "Not authenticated"))
              /\ UNCHANGED serial
         ELSE LET auth == get_current_user(cred, clock) IN
              IF ~auth.ok
              THEN /\ Finish(r, request, HTTPException(auth.status, auth.detail))
                   /\ UNCHANGED serial
              ELSE IF kind = "get_history"
              THEN /\ Continue(r, [request EXCEPT !.cur = auth.user])
                   /\ UNCHANGED serial
              ELSE /\ serial < MaxSubmissions
                   /\ Continue(r, [request EXCEPT !.cur = auth.user, !.sn = serial + 1])
                   /\ serial' = serial + 1
    /\ UNCHANGED <<Database, clock, issued, uuids, faults, deletes, Pool, running>>

-----------------------------------------------------------------------------
(* POST /predict_single *)

AuthPredictSingle(r) == Authenticate(r, "predict_single", "single")

\* The statements of create_prediction at which a storage error can be
\* raised: the INSERT, the read-back SELECT, the conversion of the row.
Faults == {"insert", "select", "convert"}

\* FOREIGN KEY (user_id) REFERENCES users(id): the INSERT of a row whose
\* user is gone raises IntegrityError.
ForeignKeyViolation(row) == ~\E u \in users : u.id = row.user_id

\* create_prediction raises: get_db rolls back and re-raises, and the
\* handlers do not catch it.
Raises(row, fault) == fault # "none" \/ ForeignKeyViolation(row)

\* Variant: one transaction spans the whole request.
BeforeImageOfRequest(request) ==
    {p \in predictions : createdBy[p.id].sn # request.sn}

\* `with get_db() as cursor` inside create_prediction: every call runs in a
\* transaction of its own, which starts from the table as it is.
BeforeImage(request) == predictions

\* Variant: the connection is in autocommit mode.
CommittedAlways(raised, before, written) == written

\* get_db, lines 42-47: commit when the body returns, rollback when it
\* raises.
Committed(raised, before, written) == IF raised THEN before ELSE written

\* db.create_prediction: the INSERT and the read-back SELECT of the row, in
\* one transaction.  An INSERT that reached the server has taken the next
\* AUTO_INCREMENT value, also when the transaction is rolled back.
create_prediction(request, row, fault) ==
    LET executed == fault # "insert"
        written == IF executed /\ ~ForeignKeyViolation(row)
                   THEN predictions \cup {row} ELSE predictions
    IN /\ fault # "none" => faults < MaxFaults
       /\ predictions' = Committed(Raises(row, fault), BeforeImage(request), written)
       /\ nextPredictionId' = IF executed THEN nextPredictionId + 1
                              ELSE nextPredictionId
       /\ createdBy' = IF executed
                       THEN Append(createdBy,
                                   [sn |-> request.sn, kind |-> request.kind,
                                    sub |-> request.cred.sub, row |-> request.idx,
                                    rows |-> Len(request.body),
                                    rowsScored |-> Len(request.out)])
                       ELSE createdBy
       /\ faults' = IF fault # "none" THEN faults + 1 ELSE faults

\* The scorer runs on the posted row, then the result is stored and the
\* stored row is returned.
PredictSingle(r) ==
    /\ req[r].pc = "single"
    /\ \E data \in Rows, fault \in {"none"} \cup Faults :
         LET s == Score(data.x)
             row == NewPrediction(req[r].cur.id, data, s.label, s.prob, "single", NULL)
             request == [req[r] EXCEPT !.body = <<data>>, !.scored = 1, !.out = <<s>>,
                                       !.idx = 1, !.fault = fault]
         IN /\ create_prediction(request, row, fault)
            /\ IF Raises(row, fault)
               THEN Finish(r, request, InternalServerError)
               ELSE Finish(r, request,
                           Ok([id |-> row.id, prediction |-> row.prediction,
                               probability |-> row.probability,
                               created_at |-> row.created_at]))
    /\ UNCHANGED <<users, nextUserId, clock, issued, uuids, serial, deletes, Pool, running>>

-----------------------------------------------------------------------------
(* POST /predict_batch *)

AuthPredictBatch(r) == Authenticate(r, "predict_batch", "batch")

\* Variant: the batch id is drawn once, when the module is loaded.
uuid4_at_import == <<1>>

\* uuid.uuid4(): a value no earlier call returned.
uuid4 == <<uuids + 1>>

\* One turn of the loop over the rows: the row is stored, and after the last
\* row the handler returns.  When create_prediction raises, the exception
\* leaves the handler.
PersistBatchRow(r, request) ==
    \E fault \in {"none"} \cup Faults :
    LET i == request.idx
        data == request.body[i]
        s == request.out[i]
        row == NewPrediction(request.cur.id, data, s.label, s.prob, "batch",
                             request.batch_id)
        acc == Append(request.acc, [name |-> data.name, prediction |-> s.label,
                                    probability |-> s.prob])
    IN /\ create_prediction(request, row, fault)
       /\ IF Raises(row, fault)
          THEN Finish(r, [request EXCEPT !.fault = fault], InternalServerError)
          ELSE IF i < Len(request.body)
          THEN Continue(r, [request EXCEPT !.idx = i + 1, !.acc = acc])
          ELSE Finish(r, [request EXCEPT !.idx = i + 1, !.acc = acc],
                      Ok([batch_id |-> request.batch_id, count |-> Len(acc),
                          predictions |-> acc]))

\* Variant: the scorer is called on the first row only.
ScoreFrameFirstRow(file) == <<Score(file[1].x)>>

\* pipeline.predict / predict_proba on the whole frame: one result per row.
ScoreFrame(file) == [i \in 1..Len(file) |-> Score(file[i].x)]

\* The uploaded file is scored as a whole, the batch id is drawn and the
\* loop is entered: the step ends with the first row's transaction.
PredictBatchScore(r) ==
    /\ req[r].pc = "batch"
    /\ \E file \in BatchFiles :
         PersistBatchRow(r, [req[r] EXCEPT !.pc = "batch_rows", !.body = file,
                                !.scored = 1,
                                !.out = ScoreFrame(file),
                                !.batch_id = uuid4, !.idx = 1])
    /\ uuids' = uuids + 1
    /\ UNCHANGED <<users, nextUserId, clock, issued, serial, deletes, Pool, running>>

PredictBatchRow(r) ==
    /\ req[r].pc = "batch_rows"
    /\ PersistBatchRow(r, req[r])
    /\ UNCHANGED <<users, nextUserId, clock, issued, uuids, serial, deletes, Pool, running>>

-----------------------------------------------------------------------------
(* GET /predictions/history *)

AuthHistory(r) == Authenticate(r, "get_history", "history")

GetHistory(r) ==
    /\ req[r].pc = "history"
    /\ \E rows \in get_user_predictions(req[r].cur.id) :
         Finish(r, req[r], Ok(rows))
    /\ UNCHANGED <<Database, clock, issued, uuids, serial, faults, deletes, Pool, running>>

-----------------------------------------------------------------------------
(* Administration: a row of users is deleted at the storage layer *)

\* Variant: the foreign key is declared without ON DELETE CASCADE being
\* enforced (a storage engine without foreign keys).
OnDeleteNoAction(rows, user) == rows

\* FOREIGN KEY (user_id) REFERENCES users(id) ON DELETE CASCADE: the rows
\* of predictions that are left when the user's row is deleted.
OnDeleteCascade(rows, user) == {p \in rows : p.user_id # user.id}

\* DELETE FROM users WHERE id = ...
DeleteUser ==
    /\ Cardinality(deletes) < MaxDeletes
    /\ \E user \in users :
         /\ users' = users \ {user}
         /\ predictions' = OnDeleteCascade(predictions, user)
         /\ deletes' = deletes \cup {user}
    /\ last' = Idle
    /\ UNCHANGED <<nextUserId, nextPredictionId, createdBy, clock, req, issued,
                   uuids, serial, faults, Pool, running>>

-----------------------------------------------------------------------------
(* The handlers as users of the pool: the calls a request makes, in order. *)
(* "with" enters a `with get_db()` block (database.py calls get_db only    *)
(* from its own functions, one block per function), "end" leaves it, and   *)
(* "score" is the call of pipeline.predict / predict_proba.                *)

RECURSIVE Repeat(_, _)
Repeat(calls, n) == IF n = 0 THEN <<>> ELSE calls \o Repeat(calls, n - 1)

\* One database function: db.get_user_by_username, db.create_prediction,
\* db.get_user_predictions.
DatabaseCall == <<"with", "end">>

HandlerKinds == {"predict_single", "predict_batch", "get_history"}

\* Variant: predict_single calls the scorer inside the with block of
\* create_prediction.
ProgramScoringInsideWith(kind) ==
    IF kind = "predict_single"
    THEN DatabaseCall \o <<"with", "score", "end">>
    ELSE IF kind = "predict_batch"
    THEN DatabaseCall \o <<"score">> \o Repeat(DatabaseCall, MaxBatchRows)
    ELSE DatabaseCall \o DatabaseCall

\* Depends(get_current_user) first (one database call); then predict_single
\* scores and stores the row, predict_batch scores the frame and stores
\* its rows one by one, get_history reads the records.
Program(kind) ==
    IF kind = "predict_single"
    THEN DatabaseCall \o <<"score">> \o DatabaseCall
    ELSE IF kind = "predict_batch"
    THEN DatabaseCall \o <<"score">> \o Repeat(DatabaseCall, MaxBatchRows)
    ELSE DatabaseCall \o DatabaseCall

\* The next call of a request in progress.
Op(h) == Program(h.kind)[h.at + 1]

\* The request has made its next call and now holds `held` connections;
\* after the last call the handler returns.
Proceed(h, held) ==
    LET done == [h EXCEPT !.at = @ + 1, !.held = held] IN
    running' = IF done.at = Len(Program(h.kind))
               THEN running (-) SetToBag({h})
               ELSE (running (-) SetToBag({h})) (+) SetToBag({done})

\* A request arrives and a thread of the server takes it.
StartRequest ==
    /\ BagCardinality(running) < NumThreads
    /\ \E kind \in HandlerKinds :
         running' = running (+) SetToBag({[kind |-> kind, at |-> 0, held |-> 0]})
    /\ UNCHANGED <<Pool, Application>>

\* get_db up to the yield (lines 37-41).  When get_connection raises (no
\* pool, or an empty queue: it does not wait) the exception leaves the
\* handler, through the with blocks it is in, which give their connections
\* back.
EnterWith(h) ==
    /\ BagIn(h, running)
    /\ Op(h) = "with"
    /\ IF connection_pool = 0
       THEN /\ running' = running (-) SetToBag({h})
            /\ UNCHANGED checkedOut
       ELSE IF InUse(connection_pool) = pool_size
       THEN /\ running' = running (-) SetToBag({h})
            /\ checkedOut' = [checkedOut EXCEPT ![connection_pool] = @ - h.held]
       ELSE /\ Proceed(h, h.held + 1)
            /\ checkedOut' = [checkedOut EXCEPT ![connection_pool] = @ + 1]
    /\ UNCHANGED <<connection_pool, pools, reachable, threads, scope, Application>>

\* get_db after the yield (lines 44-50): commit or rollback, and the
\* connection goes back to the queue.
LeaveWith(h) ==
    /\ BagIn(h, running)
    /\ Op(h) = "end"
    /\ Proceed(h, h.held - 1)
    /\ checkedOut' = [checkedOut EXCEPT ![connection_pool] = @ - 1]
    /\ UNCHANGED <<connection_pool, pools, reachable, threads, scope, Application>>

\* pipeline.predict and pipeline.predict_proba run, in the handler.
InvokeScorer(h) ==
    /\ BagIn(h, running)
    /\ Op(h) = "score"
    /\ Proceed(h, h.held)
    /\ UNCHANGED <<Pool, Application>>

\* A step of the request h.
HandlerStep(h) == EnterWith(h) \/ LeaveWith(h) \/ InvokeScorer(h)

-----------------------------------------------------------------------------
(* Time *)

AdvanceTo(instants) ==
    /\ \E t \in instants :
         /\ t > clock
         /\ clock' = t
    /\ last' = Idle
    /\ UNCHANGED <<Database, req, issued, uuids, serial, faults, deletes, Pool, running>>

\* The clock moves to a later instant, up to the expiry of the first tokens.
Advance == AdvanceTo(Instants)

\* The clock moves within the first seconds.
Tick == AdvanceTo(EarlyInstants)

-----------------------------------------------------------------------------
(* The next-state relation, and the parts of it that are explored: the     *)
(* user registry with the tokens over a day, the prediction records over   *)
(* the first seconds, the deletion of users, and the connection pool.      *)

Next ==
    \/ \E r \in Workers : RegisterCheckUsername(r)
    \/ \E r \in Workers : RegisterCheckEmail(r)
    \/ \E r \in Workers : RegisterCreateUser(r)
    \/ \E r \in Workers : Login(r)
    \/ \E r \in Workers : AuthPredictSingle(r)
    \/ \E r \in Workers : PredictSingle(r)
    \/ \E r \in Workers : AuthPredictBatch(r)
    \/ \E r \in Workers : PredictBatchScore(r)
    \/ \E r \in Workers : PredictBatchRow(r)
    \/ \E r \in Workers : AuthHistory(r)
    \/ \E r \in Workers : GetHistory(r)
    \/ Advance
    \/ DeleteUser
    \/ EnterGetDb
    \/ init_connection_pool
    \/ get_connection
    \/ \E p \in 1..MaxPools : cursor(p)
    \/ \E p \in 1..MaxPools : ExitGetDb(p)
    \/ ServerStops
    \/ ServerStarts
    \/ StartRequest
    \/ \E h \in BagToSet(running) : HandlerStep(h)

Spec == Init /\ [][Next]_vars

NextRegistry ==
    \/ \E r \in Workers : RegisterCheckUsername(r)
    \/ \E r \in Workers : RegisterCheckEmail(r)
    \/ \E r \in Workers : RegisterCreateUser(r)
    \/ \E r \in Workers : Login(r)
    \/ \E r \in Workers : AuthHistory(r)
    \/ \E r \in Workers : GetHistory(r)
    \/ Advance

SpecRegistry == Init /\ [][NextRegistry]_vars

\* The registry after alice and bob have registered in the first second,
\* each holding the token of the registration.
InitRecords ==
    /\ users = { [id |-> 1, username |-> "alice", email |-> "a@x.com",
                  hashed_password |-> hash_password("pw123")],
                 [id |-> 2, username |-> "bob", email |-> "b@x.com",
                  hashed_password |-> hash_password("pw123")] }
    /\ nextUserId = 3
    /\ predictions = {}
    /\ nextPredictionId = 1
    /\ clock = 0
    /\ req = [r \in Workers |-> Idle]
    /\ last = Idle
    /\ issued = {Issue(create_access_token(u.username, 0), "register", u) : u \in users}
    /\ uuids = 0
    /\ serial = 0
    /\ createdBy = <<>>
    /\ faults = 0
    /\ deletes = {}
    /\ running = EmptyBag
    /\ Imported(TRUE)

NextRecords ==
    \/ \E r \in Workers : AuthPredictSingle(r)
    \/ \E r \in Workers : PredictSingle(r)
    \/ \E r \in Workers : AuthPredictBatch(r)
    \/ \E r \in Workers : PredictBatchScore(r)
    \/ \E r \in Workers : PredictBatchRow(r)
    \/ \E r \in Workers : AuthHistory(r)
    \/ \E r \in Workers : GetHistory(r)
    \/ Tick

SpecRecords == InitRecords /\ [][NextRecords]_vars

\* The registry and the records when the administrator deletes users:
\* registrations and single predictions around a deletion.
NextCascade ==
    \/ \E r \in Workers : RegisterCheckUsername(r)
    \/ \E r \in Workers : RegisterCheckEmail(r)
    \/ \E r \in Workers : RegisterCreateUser(r)
    \/ \E r \in Workers : AuthPredictSingle(r)
    \/ \E r \in Workers : PredictSingle(r)
    \/ DeleteUser

SpecCascade == InitRecords /\ [][NextCascade]_vars

\* The connection pool manager under concurrent get_db calls, from either
\* outcome of the import.
InitPool == Started /\ \E up \in BOOLEAN : Imported(up)

NextPool ==
    \/ EnterGetDb
    \/ init_connection_pool
    \/ get_connection
    \/ \E p \in 1..MaxPools : cursor(p)
    \/ \E p \in 1..MaxPools : ExitGetDb(p)
    \/ ServerStops
    \/ ServerStarts

SpecPool == InitPool /\ [][NextPool]_vars

\* The requests of the guarded endpoints contending for the pool.
NextRequests ==
    \/ StartRequest
    \/ \E h \in BagToSet(running) : EnterWith(h)
    \/ \E h \in BagToSet(running) : LeaveWith(h)
    \/ \E h \in BagToSet(running) : InvokeScorer(h)

SpecRequests == Init /\ [][NextRequests]_vars

-----------------------------------------------------------------------------
(* Claims about the user registry (checked under SpecRegistry) *)

Guarded == {"predict_single", "predict_batch", "get_history"}

\* A register request has just ended without creating the user.
RegisterFailed == last.kind = "register" /\ last.resp.status # 200

\* C1: in every reachable state, whatever the interleaving of the register
\* requests, no two rows of users share a username and no two share an
\* email; and a register request that fails leaves the table as it was.
C1_UniqueUsers ==
    /\ [](\A u, v \in users :
            (u.username = v.username \/ u.email = v.email) => u = v)
    /\ [][RegisterFailed' => users' = users]_vars

\* Two registrations raced past both existence checks; the table holds one
\* row and the insert of the loser was rejected.
C1_Witness ==
    /\ last.kind = "register"
    /\ last.rejected
    /\ Cardinality(users) = 1

\* C2: a register request whose username or email is registered when it
\* arrives ends with 400, returns no token, and the step that ends it
\* changes neither the rows of users nor the tokens issued.
C2_DuplicateRejected ==
    [][(last'.kind = "register" /\ last'.dup) =>
          /\ last'.resp.status = 400
          /\ last'.resp.body = None
          /\ users' = users
          /\ issued' = issued]_vars

\* A new username with a registered email was turned down.
C2_Witness ==
    /\ last.kind = "register"
    /\ last.dup
    /\ last.resp = HTTPException(400, "Email already exists")
    /\ Cardinality(users) = 1

\* C3: a register request whose INSERT is rejected by a UNIQUE key ends
\* with 400, like a duplicate found by the existence checks.
C3_RaceLoserGets400 ==
    (last.kind = "register" /\ last.rejected) => last.resp.status = 400

-----------------------------------------------------------------------------
(* Claims about the tokens (checked under SpecRegistry) *)

\* In this step worker r takes a guarded request whose credentials
\* get_current_user accepts.
Admitted(r) == req[r].pc = "idle" /\ req'[r].kind \in Guarded

\* A guarded request has just been turned down by get_current_user.
AuthFailed == last.kind \in Guarded /\ last.cur = None

\* ... although its token carries a signature that verifies.
SignedTokenRefused ==
    AuthFailed /\ last.cred.scheme = "Bearer" /\ last.cred.sig = "valid"

TokenExpired == HTTPException(401, "Token expired")

\* The expiry of the claim: the instant of issue plus 24 hours.
ClaimedExpiry(t) == t.at + ExpireTicks

\* The expiry the token carries: whole seconds.
EncodedExpiry(t) == (t.at \div TicksPerSecond) * TicksPerSecond + ExpireTicks

\* C4 as claimed: with T = t0 + 24 h, an untampered token is accepted at
\* every time before T and refused with 401 "Token expired" from T on.
C4_ExpiryAfter24h ==
    [][/\ \A r \in Workers : Admitted(r) => clock < ClaimedExpiry(req'[r].cred)
       /\ SignedTokenRefused' =>
             /\ clock >= ClaimedExpiry(last'.cred)
             /\ last'.resp = TokenExpired]_vars

\* C4 as amended: a token issued at t0 carries the expiry T = (t0 cut to the
\* whole second) + 24 h; it is accepted at every time before T and refused
\* with 401 "Token expired" from T on.
C4_ExpiryAtWholeSecond ==
    /\ [](\A t \in issued : t.exp * TicksPerSecond = EncodedExpiry(t))
    /\ [][/\ \A r \in Workers : Admitted(r) => clock < EncodedExpiry(req'[r].cred)
          /\ SignedTokenRefused' =>
                /\ clock >= EncodedExpiry(last'.cred)
                /\ last'.resp = TokenExpired]_vars

\* A token issued within a second is refused exactly at its encoded expiry,
\* which is before 24 h have passed.
C4_Witness ==
    /\ SignedTokenRefused
    /\ last.resp = TokenExpired
    /\ last.cred.at % TicksPerSecond # 0
    /\ clock = EncodedExpiry(last.cred)
    /\ clock < ClaimedExpiry(last.cred)

\* C5: the token of a successful registration names the registered
\* username; a request authenticated with a token runs as the user of that
\* name; and a registration token is never refused before its expiry.
C5_RegistrationToken ==
    /\ (last.kind = "register" /\ last.resp.status = 200) =>
          /\ last.resp.body.sub = last.body.username
          /\ last.cur \in users
          /\ last.cur.username = last.body.username
    /\ \A r \in Workers : req[r].kind \in Guarded =>
          /\ req[r].cur \in users
          /\ req[r].cur.username = req[r].cred.sub
    /\ (SignedTokenRefused /\ last.cred.via = "register") =>
          clock >= last.cred.exp * TicksPerSecond

\* A history request authenticated with a registration token, sent in the
\* last tick before the expiry, was served.
C5_Witness ==
    /\ last.kind = "get_history"
    /\ last.resp.status = 200
    /\ last.cred.via = "register"
    /\ last.cur.username = last.cred.sub
    /\ clock = last.cred.exp * TicksPerSecond - 1

-----------------------------------------------------------------------------
(* Claims about the guarded endpoints and the prediction records (checked  *)
(* under SpecRecords)                                                      *)

\* Credentials get_current_user must refuse at instant now: none, a
\* signature that does not verify, an expired token, an unknown subject.
BadCredentials(c, now) ==
    \/ c = NoCredentials
    \/ c.sig # "valid"
    \/ c.exp * TicksPerSecond <= now
    \/ ~\E u \in users : u.username = c.sub

\* C6: a guarded request with missing, tampered, expired or stale
\* credentials is not admitted; it ends with 401, the scorer is not called,
\* nothing stored is returned and the database is left as it was.
C6_BadCredentials401 ==
    [][/\ \A r \in Workers : Admitted(r) => ~BadCredentials(req'[r].cred, clock)
       /\ (AuthFailed' /\ BadCredentials(last'.cred, clock)) =>
             /\ last'.resp.status = 401
             /\ last'.scored = 0
             /\ last'.resp.body = None
             /\ UNCHANGED Database]_vars

\* The rows of a history response, as a set.
Listed(rows) == {rows[i] : i \in 1..Len(rows)}

HistoryServed == last.kind = "get_history" /\ last.resp.status = 200

\* C7: every record belongs to the user whose token authenticated the
\* request that stored it; a history response lists, once each, exactly the
\* records whose user_id is the caller's id, all of them stored by requests
\* authenticated as the caller.
C7_HistoryIsolation ==
    /\ \A p \in predictions :
          \E u \in users : u.id = p.user_id /\ u.username = createdBy[p.id].sub
    /\ HistoryServed =>
          LET rows == last.resp.body IN
          /\ last.cur.username = last.cred.sub
          /\ Listed(rows) = {p \in predictions : p.user_id = last.cur.id}
          /\ Len(rows) = Cardinality(Listed(rows))
          /\ \A i \in 1..Len(rows) : createdBy[rows[i].id].sub = last.cred.sub

\* A user with records of their own got their history while the other user
\* had records too.
C7_Witness ==
    /\ HistoryServed
    /\ Len(last.resp.body) >= 1
    /\ \E p \in predictions : p.user_id # last.cur.id

\* The records a request stored, and the place of one among them by id.
StoredBy(sn) == {p \in predictions : createdBy[p.id].sn = sn}
Rank(p, recs) == Cardinality({q \in recs : q.id <= p.id})

\* C8: a batch request of N rows that ends with 200 has stored exactly N
\* records, all of type batch with the batch id of the response, their ids
\* ascending with the row index and each holding the name, decision and
\* probability of its row; the response reports count = N and the N rows
\* in input order.
C8_BatchRecords ==
    (last.kind = "predict_batch" /\ last.resp.status = 200) =>
       LET file == last.body
           recs == StoredBy(last.sn)
           out == last.resp.body
       IN /\ Cardinality(recs) = Len(file)
          /\ \A p \in recs :
                /\ p.prediction_type = "batch"
                /\ p.batch_id = out.batch_id
                /\ p.user_id = last.cur.id
                /\ p.name = file[Rank(p, recs)].name
                /\ p.prediction = Score(file[Rank(p, recs)].x).label
                /\ p.probability = Score(file[Rank(p, recs)].x).prob
          /\ out.count = Len(file)
          /\ Len(out.predictions) = Len(file)
          /\ \A i \in 1..Len(file) :
                out.predictions[i] = [name |-> file[i].name,
                                      prediction |-> Score(file[i].x).label,
                                      probability |-> Score(file[i].x).prob]

\* C9: a record of type batch has a batch id and was stored by a batch
\* request, a record of type single has none; two records with a batch id
\* share it exactly when the same request stored them.
C9_BatchIds ==
    /\ \A p \in predictions :
          \/ /\ p.prediction_type = "batch"
             /\ p.batch_id # NULL
             /\ createdBy[p.id].kind = "predict_batch"
          \/ /\ p.prediction_type = "single"
             /\ p.batch_id = NULL
             /\ createdBy[p.id].kind = "predict_single"
    /\ \A p, q \in predictions :
          (p.batch_id # NULL /\ q.batch_id # NULL) =>
             (p.batch_id = q.batch_id <=> createdBy[p.id].sn = createdBy[q.id].sn)

\* Two batch requests ran concurrently: a row of one was stored between
\* two rows of the other.
C9_Witness ==
    \E p, q, o \in predictions :
        /\ p.id < o.id /\ o.id < q.id
        /\ p.batch_id # NULL /\ p.batch_id = q.batch_id
        /\ o.batch_id # NULL /\ o.batch_id # p.batch_id

\* C10: a history response lists the records in the reverse of the order
\* in which they were inserted (a record stored later comes earlier), also
\* when records share a created_at value.
C10_NewestFirst ==
    HistoryServed =>
       LET rows == last.resp.body IN
       \A i, j \in 1..Len(rows) : i < j => rows[i].id > rows[j].id

-----------------------------------------------------------------------------
(* Claims about storage errors and the scorer (checked under SpecRecords) *)

\* A predict_single request has just ended after the scorer ran.
SingleEnded == last.kind = "predict_single" /\ last.scored = 1

\* A predict_batch request has just ended after the scorer ran.
BatchEnded == last.kind = "predict_batch" /\ last.scored = 1

\* C15: a predict_single request that succeeds has called the scorer on one
\* feature set and stored exactly one record, of type single without batch
\* id, which is the one it returns; one in which a step of
\* create_prediction fails ends with the error, the table is as it was
\* before the request and holds no record of the request.
C15_SingleRecordOrNone ==
    /\ [](SingleEnded =>
            /\ Len(last.out) = 1
            /\ IF last.resp.status = 200
               THEN /\ last.fault = "none"
                    /\ \E p \in predictions :
                          /\ StoredBy(last.sn) = {p}
                          /\ p.id = last.resp.body.id
                          /\ p.user_id = last.cur.id
                          /\ p.prediction_type = "single"
                          /\ p.batch_id = NULL
               ELSE /\ last.fault \in Faults
                    /\ last.resp = InternalServerError
                    /\ StoredBy(last.sn) = {})
    /\ [][(SingleEnded' /\ last'.resp.status # 200) =>
             predictions' = predictions]_vars

\* The read-back SELECT of a predict_single request failed after its INSERT
\* had run: the id is used up and no row is left.
C15_Witness ==
    /\ SingleEnded
    /\ last.fault = "select"
    /\ last.resp.status = 500
    /\ Len(createdBy) = 1
    /\ createdBy[1].sn = last.sn
    /\ predictions = {}

\* The batch requests in the state: those running, and the one that has
\* just ended.
BatchRequests ==
    {q \in {req[r] : r \in Workers} \cup {last} :
        q.kind = "predict_batch" /\ q.scored = 1}

\* C16: at any moment the records of a batch request are those of the
\* first rows of its file, one per row, in order and with the batch id of
\* the request; when storing row k fails, the records of the rows before k
\* are there and stay, and row k has none.
C16_BatchPrefix ==
    /\ [](\A q \in BatchRequests :
            LET recs == StoredBy(q.sn) IN
            /\ Cardinality(recs) = q.idx - 1
            /\ Cardinality(recs) <= Len(q.body)
            /\ \A p \in recs :
                  /\ p.batch_id = q.batch_id
                  /\ p.name = q.body[Rank(p, recs)].name
                  /\ p.x = q.body[Rank(p, recs)].x
                  /\ createdBy[p.id].row = Rank(p, recs))
    /\ [][(BatchEnded' /\ last'.resp.status # 200) =>
             /\ last'.fault \in Faults
             /\ predictions' = predictions]_vars

\* Storing the second row of a batch failed; the record of the first row is
\* in the table.
C16_Witness ==
    /\ BatchEnded
    /\ last.resp.status = 500
    /\ last.idx = 2
    /\ Cardinality(StoredBy(last.sn)) = 1

\* C17: a batch request whose rows were scored ends with a response that
\* reports the batch id, the number of rows and, for every row, its name,
\* decision and probability, also when storing a row fails.
C17_BatchAlwaysResponds ==
    BatchEnded =>
       /\ last.resp.status = 200
       /\ last.resp.body.batch_id = last.batch_id
       /\ last.resp.body.count = Len(last.body)
       /\ \A i \in 1..Len(last.body) :
             last.resp.body.predictions[i] =
                [name |-> last.body[i].name, prediction |-> last.out[i].label,
                 probability |-> last.out[i].prob]

\* C18: the decision and the probability a successful predict_single
\* returns are the scorer's output for the posted feature vector.
C18_ReturnsScorerOutput ==
    (SingleEnded /\ last.resp.status = 200) =>
       /\ last.resp.body.prediction = Score(last.body[1].x).label
       /\ last.resp.body.probability = Score(last.body[1].x).prob

\* The INSERTs of batch requests, by the id they took.
BatchInserts == {id \in 1..Len(createdBy) : createdBy[id].kind = "predict_batch"}

-----------------------------------------------------------------------------
(* Claims about the deletion of users (checked under SpecCascade) *)

DeletedIds == {d.id : d \in deletes}

\* Every record refers to a row of users.
ReferentialIntegrity == \A p \in predictions : \E u \in users : u.id = p.user_id

\* A step that deletes a user removes the user's row and records and
\* nothing else.
CascadeStep ==
    \A d \in deletes' \ deletes :
        /\ users' = users \ {d}
        /\ predictions' = {p \in predictions : p.user_id # d.id}

\* A guarded request presenting a token that was issued to a user deleted
\* since has been turned down.
StaleTokenRefused ==
    /\ AuthFailed
    /\ last.cred.scheme = "Bearer"
    /\ last.cred.uid \in DeletedIds

\* C19 as claimed: every record refers to an existing user; a deletion
\* removes the user's records and no others; and from the deletion on every
\* token that was issued to the deleted user is refused with 401.
C19_CascadeAndTokensRefused ==
    /\ []ReferentialIntegrity
    /\ [][/\ CascadeStep
          /\ \A r \in Workers : Admitted(r) => req'[r].cred.uid \notin DeletedIds
          /\ StaleTokenRefused' => last'.resp.status = 401]_vars

\* C19 as amended: every record refers to an existing user; a deletion
\* removes the user's records and no others; a token that was issued to the
\* deleted user is refused with 401 as long as no user is registered under
\* its subject, and once that username is registered again it is accepted
\* and resolves to the new user.
C19_CascadeAndTokensBySubject ==
    /\ []ReferentialIntegrity
    /\ [][/\ CascadeStep
          /\ \A r \in Workers : Admitted(r) =>
                /\ req'[r].cur \in users
                /\ req'[r].cur.username = req'[r].cred.sub
                /\ req'[r].cur.id \notin DeletedIds
          /\ StaleTokenRefused' => last'.resp.status = 401]_vars

\* Alice had a record and was deleted: the record is gone, a record of bob
\* is still there, and alice's token has just been refused with 401.
C19_Witness ==
    /\ StaleTokenRefused
    /\ last.resp = HTTPException(401, "User not found")
    /\ \E id \in 1..Len(createdBy) :
          /\ createdBy[id].sub = last.cred.sub
          /\ createdBy[id].sn > 0
          /\ \A p \in predictions : p.id # id
    /\ \E p \in predictions : p.user_id \notin DeletedIds

-----------------------------------------------------------------------------
(* Claims about the connection pool manager (checked under SpecPool) *)

\* C11: when all pool_size connections of the pool are held by running
\* get_db calls, a further acquisition waits for a release and does not
\* fail at once because of the exhaustion; and no pool ever has more than
\* pool_size connections in use.
C11_ExhaustionBlocks ==
    /\ ~(/\ scope.result = "PoolError"
         /\ Holders(scope.pool) = pool_size)
    /\ \A p \in 1..MaxPools : InUse(p) <= pool_size

\* A get_db call has just ended, by returning or by raising.
ScopeEnded == scope.result # "none"

\* C12: however many threads enter get_db while connection_pool is unset,
\* at most one pool object is ever constructed, and every connection in
\* use belongs to the pool the global refers to.
C12_PoolCreatedOnce ==
    /\ pools <= 1
    /\ \A p \in 1..MaxPools : Holders(p) > 0 => p = connection_pool

\* C13: a get_db call that ends while no pool is installed (initialization
\* has failed so far) raises ConnectionError and nothing else.
C13_InitFailureRaisesConnectionError ==
    (ScopeEnded /\ scope.pool = 0) => scope.result = "ConnectionError"

\* C14: a get_db call that obtained a connection ends with exactly one of
\* commit and rollback and gives the connection back; when no thread is
\* inside get_db, no connection is in use.
C14_ScopeCommitsOrRollsBackAndReleases ==
    /\ (ScopeEnded /\ scope.conn # 0) =>
          /\ scope.committed # scope.rolledBack
          /\ scope.released
    /\ threads[At("idle", 0)] = NumThreads =>
          \A p \in 1..MaxPools : InUse(p) = 0

-----------------------------------------------------------------------------
(* Claim about the requests and the pool (checked under SpecRequests) *)

RECURSIVE HeldBy(_)
HeldBy(hs) ==
    IF hs = {} THEN 0
    ELSE LET h == CHOOSE x \in hs : TRUE
         IN CopiesIn(h, running) * h.held + HeldBy(hs \ {h})

\* C21: a request holds at most one connection, none when its next call is
\* the scorer and none when it is about to take a connection; the
\* connections out of the queue are those the requests hold; and every
\* request in progress can take its next step, whatever the others hold.
C21_NoHoldAndWait ==
    /\ \A h \in BagToSet(running) :
          /\ h.held <= 1
          /\ Op(h) = "score" => h.held = 0
          /\ Op(h) = "with" => h.held = 0
          /\ ENABLED HandlerStep(h)
    /\ InUse(connection_pool) = HeldBy(BagToSet(running))
    /\ InUse(connection_pool) <= pool_size

\* The pool is exhausted by pool_size requests inside with blocks while
\* another request, holding nothing, is about to ask for a connection.
C21_Witness ==
    /\ InUse(connection_pool) = pool_size
    /\ \E h \in BagToSet(running) : Op(h) = "with" /\ h.held = 0
    /\ \E h \in BagToSet(running) : Op(h) = "end" /\ h.held = 1

====
